---- MODULE Spec2Model ----
(***************************************************************************)
(* WaveFormDataset (src/phasenet/data/dataset.py): preparation of an ASDF  *)
(* archive into fixed-length tensors, the .pt cache file, and the random   *)
(* access with optional stacking.                                          *)
(*                                                                         *)
(* Time is counted in integer ticks.  A stream's sampling_rate is          *)
(* represented by its sample interval `delta` in ticks, so that            *)
(* sampling_rate * t (t in ticks) is the rational t / delta.  Floating     *)
(* point rounding of the products is not represented: arithmetic is exact. *)
(***************************************************************************)
EXTENDS Integers, Sequences, FiniteSets, TLC

\* ---------------------------------------------------------------- bounds
MaxKeys == 2          \* waveforms in a lifecycle archive
MaxArrival == 3       \* largest phase arrival offset (ticks after reference)
MaxExtend == 2        \* largest left_extend / right_extend (ticks)
MaxWin == 3           \* largest win_length (ticks)
MaxDelta == 2         \* largest sample interval (ticks per sample)
MaxNpts == 8          \* longest trace (samples)
MaxShort == 2         \* how many samples one component may be shorter by
RandDen == 2          \* torch.rand draws are k / RandDen, k in 0..RandDen-1
MaxConstruct == 3     \* constructor calls in one behaviour
MaxRef == 5           \* reference time of a waveform (ticks since the epoch)

\* --------------------------------------------------------- small helpers
Min(S) == CHOOSE x \in S : \A y \in S : x <= y

Range(f) == {f[x] : x \in DOMAIN f}

Abs(n) == IF n < 0 THEN -n ELSE n

\* s[:n] of a Python sequence, n >= 0
Take(s, n) == SubSeq(s, 1, IF n < Len(s) THEN n ELSE Len(s))

\* s[n:] of a Python sequence, n >= 0
Drop(s, n) == SubSeq(s, n + 1, Len(s))

Zeros(n) == [k \in 1..n |-> 0]

\* int(num / den) for num >= 0, den > 0: truncation
IntTrunc(num, den) == num \div den

\* Python 3 round(num / den) for num >= 0, den > 0: half to even
PyRound(num, den) ==
    LET q == num \div den
        r == num % den
    IN  IF 2 * r < den THEN q
        ELSE IF 2 * r > den THEN q + 1
        ELSE IF q % 2 = 0 THEN q ELSE q + 1

\* nearest integer to num / den, halves away from zero (used by Trace.slice)
RoundAway(num, den) ==
    LET a == Abs(num)
        q == a \div den
        r == a % den
        m == IF 2 * r >= den THEN q + 1 ELSE q
    IN  IF num < 0 THEN -m ELSE m

\* ------------------------------------------------- time-window resolver
\* add_data, lines 74-89: offsets relative to the reference time
ResolveWindowNoShift(arrival_times, left_extend, right_extend, win_length) ==
    LET start0 == Min(Range(arrival_times)) - left_extend
        end0 == Min(Range(arrival_times)) + right_extend
        start == IF start0 < 0 THEN 0 ELSE start0
    IN  [start |-> start, end |-> end0,
         left_signal_start |-> start - win_length, left_signal_end |-> start,
         right_signal_start |-> end0, right_signal_end |-> end0 + win_length,
         arrival_times |-> [p \in DOMAIN arrival_times |-> arrival_times[p] - start]]

ResolveWindow(arrival_times, left_extend, right_extend, win_length) ==
    LET start0 == Min(Range(arrival_times)) - left_extend
        end0 == Min(Range(arrival_times)) + right_extend
        clamp == start0 < 0
        end == IF clamp THEN end0 + (-start0) ELSE end0
        start == IF clamp THEN 0 ELSE start0
    IN  [start |-> start, end |-> end,
         left_signal_start |-> start - win_length, left_signal_end |-> start,
         right_signal_start |-> end, right_signal_end |-> end + win_length,
         arrival_times |-> [p \in DOMAIN arrival_times |-> arrival_times[p] - start]]

\* ------------------------------------------------------ trace extractor
\* A trace is [starttime, data]; its samples sit at starttime + k * delta.
EndTime(tr, delta) == tr.starttime + (Len(tr.data) - 1) * delta

\* raw sample k of component c: non-zero and distinct within a stream
RawSample(c, k) == 10 * c + k

RawTrace(starttime, npts, c) ==
    [starttime |-> starttime, data |-> [k \in 1..npts |-> RawSample(c, k)]]

\* detrend, taper, bandpass (lines 117-120) rewrite the samples in place;
\* the conditioned value of a sample is represented by a tagged value
Conditioned(v) == v + 100

Condition(tr) ==
    [starttime |-> tr.starttime, data |-> [k \in DOMAIN tr.data |-> Conditioned(tr.data[k])]]

\* trace.slice(starttime=t0, endtime=t1), nearest sample, no padding
LTrim(tr, t0, delta) ==
    LET d == RoundAway(t0 - tr.starttime, delta)
    IN  IF d <= 0 THEN tr
        ELSE [starttime |-> tr.starttime + d * delta, data |-> Drop(tr.data, d)]

RTrim(tr, t1, delta) ==
    LET npts == Len(tr.data)
        d == RoundAway(t1 - tr.starttime, delta) - npts + 1
    IN  IF d >= 0 THEN tr
        ELSE IF t1 < tr.starttime THEN [starttime |-> tr.starttime, data |-> << >>]
        ELSE IF t1 = tr.starttime THEN [starttime |-> tr.starttime, data |-> Take(tr.data, 1)]
        ELSE [starttime |-> tr.starttime, data |-> Take(tr.data, npts - Abs(d))]

Slice(tr, t0, t1, delta) == RTrim(LTrim(tr, t0, delta), t1, delta).data

\* line 112: the coverage check on the raw trace
InsufficientNoTail(tr, start, end, win_length, delta) ==
    \/ start < tr.starttime
    \/ end > EndTime(tr, delta)

Insufficient(tr, start, end, win_length, delta) ==
    \/ start < tr.starttime
    \/ end > EndTime(tr, delta)
    \/ EndTime(tr, delta) - win_length < end

\* lines 103-108: int(sampling_rate * win_length)
RowLen(win_length, delta) == IntTrunc(win_length, delta)

\* res[i, :] = src : the shapes must agree, a one-element src is broadcast
CanAssign(src, L) == Len(src) = L \/ Len(src) = 1

AssignRow(src, L) == IF Len(src) = L THEN src ELSE [k \in 1..L |-> src[1]]

\* lines 128-130 and 136-138
MainRowTail(wave_data, L) ==
    IF Len(wave_data) > L THEN Drop(wave_data, Len(wave_data) - L) ELSE wave_data

MainRow(wave_data, L) == Take(wave_data, L)

\* lines 132-134: left_res[i, -len(d):] = d with d = left_wave_data[:L]
LeftRowLeftAligned(left_wave_data, L) ==
    LET d == Take(left_wave_data, L)
    IN  d \o Zeros(L - Len(d))

LeftRow(left_wave_data, L) ==
    LET d == Take(left_wave_data, L)
    IN  Zeros(L - Len(d)) \o d

\* the slice target left_res[i, -0:] is the whole row
CanAssignLeft(left_wave_data, L) == Len(Take(left_wave_data, L)) > 0 \/ L = 0

Components == 1..3    \* "R", "T", "Z"

\* lines 90-97: the windows as absolute times
AbsWindow(wf, w) ==
    [start |-> wf.reftime + w.start, end |-> wf.reftime + w.end,
     left_signal_start |-> wf.reftime + w.left_signal_start,
     left_signal_end |-> wf.reftime + w.left_signal_end,
     right_signal_start |-> wf.reftime + w.right_signal_start,
     right_signal_end |-> wf.reftime + w.right_signal_end]

\* lines 122-126 for component i
WaveData(wf, a, i) == Slice(Condition(wf.traces[i]), a.start, a.end, wf.delta)

LeftWaveData(wf, a, i) ==
    Slice(Condition(wf.traces[i]), a.left_signal_start, a.left_signal_end, wf.delta)

RightWaveData(wf, a, i) ==
    Slice(Condition(wf.traces[i]), a.right_signal_start, a.right_signal_end, wf.delta)

\* one iteration of the loop of lines 110-138: what stops it, if anything
CompStatus(wf, a, win_length, i) ==
    LET L == RowLen(win_length, wf.delta)
    IN  IF Insufficient(wf.traces[i], a.start, a.end, win_length, wf.delta)
            THEN "insufficient"
        ELSE IF ~CanAssign(MainRow(WaveData(wf, a, i), L), L) THEN "shape"
        ELSE IF ~CanAssignLeft(LeftWaveData(wf, a, i), L) THEN "shape"
        ELSE IF ~CanAssign(MainRow(RightWaveData(wf, a, i), L), L) THEN "shape"
        ELSE "ok"

\* lines 141, 146
Label(w, delta) == [p \in DOMAIN w.arrival_times |-> PyRound(w.arrival_times[p], delta)]

\* add_data as a function of the configuration and the archive entry
AddDataResult(cf, wf) ==
    LET w == ResolveWindow(wf.arrivals, cf.left_extend, cf.right_extend, cf.win_length)
        a == AbsWindow(wf, w)
        L == RowLen(cf.win_length, wf.delta)
        bad == {i \in Components : CompStatus(wf, a, cf.win_length, i) # "ok"}
        status == IF bad = {} THEN "stored" ELSE CompStatus(wf, a, cf.win_length, Min(bad))
    IN  [status |-> status, window |-> w, L |-> L,
         res |-> IF status # "stored" THEN << >>
                 ELSE [i \in Components |-> AssignRow(MainRow(WaveData(wf, a, i), L), L)],
         left_res |-> IF status # "stored" THEN << >>
                 ELSE [i \in Components |-> LeftRow(LeftWaveData(wf, a, i), L)],
         right_res |-> IF status # "stored" THEN << >>
                 ELSE [i \in Components |-> AssignRow(MainRow(RightWaveData(wf, a, i), L), L)],
         label |-> IF status # "stored" THEN << >> ELSE Label(w, wf.delta)]

\* ------------------------------------------------------------ the state
VARIABLES
    conf,        \* data_conf, transform and stack_transform of the constructor
    archive,     \* the ASDF file: one waveform per key, keys are 1..Len(archive)
    cache,       \* the file at cache_path: NoFile or the saved blob
    wave_keys,   \* self.wave_keys
    data,        \* self.data
    left_data,   \* self.left_data
    right_data,  \* self.right_data
    label,       \* self.label
    pc,          \* position of the constructor: none, prepare, ready, raised
    mode,        \* the prepare flag of the current construction
    next_key,    \* position of the loop of line 60 in wave_keys
    error,       \* what the constructor raised, if it raised
    locals,      \* time windows and outcome of the most recent add_data call
    frames,      \* the call stack of __getitem__
    result,      \* what the last primary __getitem__ returned
    ncons,       \* constructor calls so far
    nprep,       \* prepare-mode constructor calls so far
    extracted,   \* which prepare-mode calls (by ordinal) ran add_data or save
    snap         \* in-memory state of the preparing object when save returned

vars == <<conf, archive, cache, wave_keys, data, left_data, right_data, label,
          pc, mode, next_key, error, locals, frames, result,
          ncons, nprep, extracted, snap>>

objvars == <<wave_keys, data, left_data, right_data, label>>

NoFile == [exists |-> FALSE]

NoSnap == [taken |-> FALSE]

NoResult == [returned |-> FALSE]

None == "none"

Empty == << >>

\* ------------------------------------------------------- the cache file
\* a dict is written as its (key, value) items, in key order
Items(d) == [j \in 1..Cardinality(DOMAIN d) |->
                LET k == CHOOSE k \in DOMAIN d : Cardinality({x \in DOMAIN d : x < k}) = j - 1
                IN  <<k, d[k]>>]

FromItems(items) ==
    [k \in {items[j][1] : j \in DOMAIN items} |->
        items[CHOOSE j \in DOMAIN items : items[j][1] = k][2]]

\* save, lines 173-182
SaveSwapped(keys, d, ld, rd, lb) ==
    [wave_keys |-> keys, data |-> Items(d), left_data |-> Items(rd),
     right_data |-> Items(ld), label |-> Items(lb)]

Save(keys, d, ld, rd, lb) ==
    [wave_keys |-> keys, data |-> Items(d), left_data |-> Items(ld),
     right_data |-> Items(rd), label |-> Items(lb)]

\* load, lines 184-191
LoadNoLabel(blob) ==
    [wave_keys |-> blob.wave_keys, data |-> FromItems(blob.data),
     left_data |-> FromItems(blob.left_data),
     right_data |-> FromItems(blob.right_data), label |-> Empty]

Load(blob) ==
    [wave_keys |-> blob.wave_keys, data |-> FromItems(blob.data),
     left_data |-> FromItems(blob.left_data),
     right_data |-> FromItems(blob.right_data), label |-> FromItems(blob.label)]

\* isfile(cache_path), lines 54 and 67
IsFileNever(c) == FALSE

IsFile(c) == c.exists

\* ds.waveforms.list(), line 58
WaveformList(ar) == [k \in 1..Len(ar) |-> k]

\* ---------------------------------------------------------- constructor
Idle == frames = Empty /\ pc # "prepare" /\ ncons < MaxConstruct

\* __init__(prepare=True), lines 44-58: up to the first key
ConstructPrepare ==
    /\ Idle
    /\ ncons' = ncons + 1
    /\ nprep' = nprep + 1
    /\ mode' = "prepare"
    /\ data' = Empty /\ left_data' = Empty /\ right_data' = Empty /\ label' = Empty
    /\ error' = None
    /\ result' = NoResult
    /\ IF IsFile(cache)
          THEN /\ wave_keys' = Empty
               /\ pc' = "ready"
               /\ next_key' = 0
          ELSE /\ wave_keys' = WaveformList(archive)
               /\ pc' = "prepare"
               /\ next_key' = 1
    /\ UNCHANGED <<conf, archive, cache, locals, frames, extracted, snap>>

\* one iteration of the loop of lines 60-61: add_data(ds, wk, ak)
AddDataSkipFailed ==
    /\ pc = "prepare"
    /\ next_key <= Len(wave_keys)
    /\ LET wk == wave_keys[next_key]
           r == AddDataResult(conf, archive[wk])
       IN  /\ locals' = [wk |-> wk, status |-> r.status, window |-> r.window, L |-> r.L]
           /\ extracted' = extracted \cup {nprep}
           /\ next_key' = next_key + 1
           /\ IF r.status = "stored"
                 THEN /\ data' = (wk :> r.res) @@ data
                      /\ left_data' = (wk :> r.left_res) @@ left_data
                      /\ right_data' = (wk :> r.right_res) @@ right_data
                      /\ label' = (wk :> r.label) @@ label
                      /\ UNCHANGED <<pc, error>>
                 ELSE /\ error' = r.status
                      /\ UNCHANGED <<pc, data, left_data, right_data, label>>
    /\ UNCHANGED <<conf, archive, cache, wave_keys, mode, frames, result, ncons, nprep, snap>>

AddData ==
    /\ pc = "prepare"
    /\ next_key <= Len(wave_keys)
    /\ LET wk == wave_keys[next_key]
           r == AddDataResult(conf, archive[wk])
       IN  /\ locals' = [wk |-> wk, status |-> r.status, window |-> r.window, L |-> r.L]
           /\ extracted' = extracted \cup {nprep}
           /\ IF r.status = "stored"
                 THEN /\ data' = (wk :> r.res) @@ data
                      /\ left_data' = (wk :> r.left_res) @@ left_data
                      /\ right_data' = (wk :> r.right_res) @@ right_data
                      /\ label' = (wk :> r.label) @@ label
                      /\ next_key' = next_key + 1
                      /\ UNCHANGED <<pc, error>>
                 ELSE /\ pc' = "raised"
                      /\ error' = r.status
                      /\ UNCHANGED <<data, left_data, right_data, label, next_key>>
    /\ UNCHANGED <<conf, archive, cache, wave_keys, mode, frames, result, ncons, nprep, snap>>

\* line 63: self.save(cache_path), after the last key
SaveCache ==
    /\ pc = "prepare"
    /\ next_key > Len(wave_keys)
    /\ cache' = [exists |-> TRUE, blob |-> Save(wave_keys, data, left_data, right_data, label)]
    /\ snap' = [taken |-> TRUE, wave_keys |-> wave_keys, data |-> data, left_data |-> left_data,
                right_data |-> right_data, label |-> label]
    /\ extracted' = extracted \cup {nprep}
    /\ pc' = "ready"
    /\ UNCHANGED <<conf, archive, objvars, mode, next_key, error, locals, frames,
                   result, ncons, nprep>>

\* __init__(prepare=False), lines 44-49 and 65-69
ConstructLoad ==
    /\ Idle
    /\ ncons' = ncons + 1
    /\ mode' = "load"
    /\ next_key' = 0
    /\ result' = NoResult
    /\ IF ~IsFile(cache)
          THEN /\ wave_keys' = Empty
               /\ data' = Empty /\ left_data' = Empty
               /\ right_data' = Empty /\ label' = Empty
               /\ pc' = "raised"
               /\ error' = "nocache"
          ELSE /\ wave_keys' = Load(cache.blob).wave_keys
               /\ data' = Load(cache.blob).data
               /\ left_data' = Load(cache.blob).left_data
               /\ right_data' = Load(cache.blob).right_data
               /\ label' = Load(cache.blob).label
               /\ pc' = "ready"
               /\ error' = None
    /\ UNCHANGED <<conf, archive, cache, locals, frames, nprep, extracted, snap>>

\* ---------------------------------------------------------- __getitem__
\* lines 153-160; indices are 1-based here, idx k stands for Python's k - 1
Sample(idx) ==
    LET key == wave_keys[idx]
    IN  [data |-> data[key], left_data |-> left_data[key],
         right_data |-> right_data[key], arrivals |-> label[key], key |-> key,
         transformed |-> FALSE]

\* lines 161-162: the transform is opaque, its application is recorded
Transform(sample) == IF conf.transform THEN [sample EXCEPT !.transformed = TRUE] ELSE sample

\* line 170: the stack_transform is opaque, its arguments are recorded
StackTransform(sample, random_sample) == [stacked |-> <<sample, random_sample>>]

\* line 164 and 166: torch.randint(len(self.data), (1,))
RandInt == 1..Cardinality(DOMAIN data)

\* line 168: torch.rand(1) lies in [0, 1): u / RandDen with 0 <= u < RandDen
Rand == 0..(RandDen - 1)

StackDecision(u) == u <= conf.stack_ratio

\* line 167: the stack_main argument of the recursive call
SecondaryStackMain == FALSE

\* line 165: the loop condition
ResampleNeededNever(frame) == FALSE

ResampleNeeded(frame) == frame.random_idx = frame.idx

NoSample == [built |-> FALSE]

Frame(idx, stack_main) ==
    [idx |-> idx, stack_main |-> stack_main, at |-> "start", random_idx |-> 0,
     sample |-> NoSample, random_sample |-> NoSample]

Top == frames[Len(frames)]

SetTop(f) == [frames EXCEPT ![Len(frames)] = f]

\* `return sample` of the top frame: to the caller's line 167, or to the user
Return(sample) ==
    IF Len(frames) = 1
        THEN /\ frames' = Empty
             /\ result' = [returned |-> TRUE, idx |-> frames[1].idx, value |-> sample]
        ELSE /\ frames' = [SubSeq(frames, 1, Len(frames) - 1) EXCEPT ![Len(frames) - 1] =
                              [@ EXCEPT !.random_sample = sample, !.at = "ratio"]]
             /\ UNCHANGED result

getvars == <<conf, archive, cache, objvars, pc, mode, next_key, error, locals,
             ncons, nprep, extracted, snap>>

\* a primary call dataset[idx]
GetItem ==
    /\ pc = "ready"
    /\ frames = Empty
    /\ \E idx \in 1..Len(wave_keys) :
          frames' = <<Frame(idx, TRUE)>>
    /\ result' = NoResult
    /\ UNCHANGED getvars

\* lines 153-164: build the sample, then either return it or draw an index
Body ==
    /\ frames # Empty
    /\ Top.at = "start"
    /\ LET sample == Transform(Sample(Top.idx))
       IN  IF Top.stack_main /\ conf.stack_transform
              THEN /\ \E r \in RandInt :
                        frames' = SetTop([Top EXCEPT !.sample = sample, !.at = "loop",
                                                     !.random_idx = r])
                   /\ UNCHANGED result
              ELSE Return(sample)
    /\ UNCHANGED getvars

\* lines 165-166: one more draw
Resample ==
    /\ frames # Empty
    /\ Top.at = "loop"
    /\ ResampleNeeded(Top)
    /\ \E r \in RandInt : frames' = SetTop([Top EXCEPT !.random_idx = r])
    /\ UNCHANGED result
    /\ UNCHANGED getvars

\* the draws of Resample that leave the loop
ResampleOther ==
    /\ Resample
    /\ Top'.random_idx # Top'.idx

\* line 167: the recursive call
CallSecondary ==
    /\ frames # Empty
    /\ Top.at = "loop"
    /\ ~ResampleNeeded(Top)
    /\ frames' = Append(SetTop([Top EXCEPT !.at = "called"]),
                        Frame(Top.random_idx, SecondaryStackMain))
    /\ UNCHANGED result
    /\ UNCHANGED getvars

\* lines 168-171: the stacking decision and the return
Ratio ==
    /\ frames # Empty
    /\ Top.at = "ratio"
    /\ \E u \in Rand :
          IF StackDecision(u)
             THEN Return(StackTransform(Top.sample, Top.random_sample))
             ELSE Return(Top.sample)
    /\ UNCHANGED getvars

\* ------------------------------------------------------- configurations
Phases == <<"P", "S">>

Confs(extends, wins, ratios, flags) ==
    [left_extend : extends, right_extend : extends, win_length : wins,
     stack_ratio : ratios, transform : flags, stack_transform : flags]

\* a three-component stream whose component sc, if any, is sh samples short
Traces(starttime, npts, sc, sh) ==
    [c \in Components |-> RawTrace(starttime, IF c = sc THEN npts - sh ELSE npts, c)]

Waveforms(arrivals, deltas, offsets, lengths, shorts) ==
    { [arrivals |-> ar, reftime |-> MaxRef, delta |-> d,
       traces |-> Traces(MaxRef + off, n, sc, sh)] :
         ar \in {x \in [DOMAIN Phases -> arrivals] : x[1] <= x[2]},
         d \in deltas, off \in offsets, n \in lengths,
         <<sc, sh>> \in {<<0, 0>>} \cup (Components \X shorts) }

Archives(waveforms, sizes) == UNION { [1..n -> waveforms] : n \in sizes }

NoLocals == [wk |-> 0, status |-> None, window |-> [resolved |-> FALSE], L |-> 0]

InitWith(confs, archives) ==
    /\ conf \in confs
    /\ archive \in archives
    /\ cache = NoFile
    /\ wave_keys = Empty /\ data = Empty /\ left_data = Empty
    /\ right_data = Empty /\ label = Empty
    /\ pc = None /\ mode = None /\ next_key = 0 /\ error = None
    /\ locals = NoLocals
    /\ frames = Empty /\ result = NoResult
    /\ ncons = 0 /\ nprep = 0 /\ extracted = {} /\ snap = NoSnap

\* the life cycle of a small archive: prepare, load, random access
Init ==
    InitWith(Confs({1}, {2}, 0..RandDen, BOOLEAN),
             Archives({w \in Waveforms({0, 1, 2}, {1}, {0}, {6}, {2}) :
                          /\ w.arrivals[1] < w.arrivals[2]
                          /\ w.arrivals[2] = 2
                          /\ Len(w.traces[1].data) = Len(w.traces[2].data)},
                      0..MaxKeys))

Next ==
    \/ ConstructPrepare
    \/ AddData
    \/ SaveCache
    \/ ConstructLoad
    \/ GetItem
    \/ Body
    \/ Resample
    \/ CallSecondary
    \/ Ratio

Spec == Init /\ [][Next]_vars

\* the random draws are fair: a draw that differs from idx is not avoided
\* forever, and a call in progress keeps running
FairSpec ==
    /\ Spec
    /\ WF_vars(Body) /\ WF_vars(CallSecondary) /\ WF_vars(Ratio)
    /\ SF_vars(ResampleOther)

\* extraction of one waveform over all small configurations and records
InitExtract ==
    InitWith(Confs(0..MaxExtend, 1..MaxWin, {0}, {FALSE}),
             Archives(Waveforms(0..MaxArrival, 1..MaxDelta, -1..1,
                                {MaxNpts - 2, MaxNpts}, {MaxShort}), {1}))

NextExtract ==
    \/ ConstructPrepare
    \/ AddData
    \/ SaveCache

SpecExtract == InitExtract /\ [][NextExtract]_vars

\* ================================================================ claims

Constructed == pc = "ready"

\* C1: after a construction completes in either mode, wave_keys and the four
\* mappings have the same length and every key of wave_keys has an entry in
\* data, left_data, right_data and label.
KeysAndMappingsAgree ==
    Constructed =>
        /\ Len(wave_keys) = Cardinality(DOMAIN data)
        /\ Len(wave_keys) = Cardinality(DOMAIN left_data)
        /\ Len(wave_keys) = Cardinality(DOMAIN right_data)
        /\ Len(wave_keys) = Cardinality(DOMAIN label)
        /\ \A j \in DOMAIN wave_keys :
              /\ wave_keys[j] \in DOMAIN data
              /\ wave_keys[j] \in DOMAIN left_data
              /\ wave_keys[j] \in DOMAIN right_data
              /\ wave_keys[j] \in DOMAIN label

LoadedTwoKeys == Constructed /\ mode = "load" /\ Len(wave_keys) = 2

\* C2 as stated: in any sequence of prepare-mode constructions, add_data and
\* save run only in the first one.
ExtractionOnlyInFirstPrepare == \A n \in extracted : n = 1

\* C2 as amended: a step taken while the cache file exists runs neither
\* add_data nor save and leaves the file's contents unchanged, so extraction
\* and the cache write belong to prepare calls that found no cache file.
PrepareSkipsExistingCache ==
    [][cache.exists => (cache' = cache /\ extracted' = extracted)]_vars

SecondPrepareSkipped ==
    /\ Constructed /\ mode = "prepare" /\ nprep = 2
    /\ cache.exists /\ extracted = {1} /\ wave_keys = Empty

\* C3: a load-mode construction after a prepare on a fresh path yields the
\* key list and, per key, the main, left, right tensors and the label vector
\* that the preparing object held when prepare finished.
RoundTrip ==
    (Constructed /\ mode = "load") =>
        /\ snap.taken
        /\ wave_keys = snap.wave_keys
        /\ data = snap.data
        /\ left_data = snap.left_data
        /\ right_data = snap.right_data
        /\ label = snap.label

LoadedDistinctLabels ==
    /\ Constructed /\ mode = "load" /\ snap.taken
    /\ Len(wave_keys) = 2
    /\ label[wave_keys[1]] # label[wave_keys[2]]
    /\ data[wave_keys[1]] # left_data[wave_keys[1]]
    /\ left_data[wave_keys[1]] # right_data[wave_keys[1]]

\* the most recent add_data call stored its key and the entry is still there
Stored == locals.status = "stored" /\ locals.wk \in DOMAIN data

\* C4 as stated: for every waveform add_data resolves, each arrival lies in
\* the main window: start <= arrival <= end, that is, each adjusted arrival
\* offset lies in [0, end - start].
ArrivalsInsideMainWindow ==
    locals.status # None =>
        LET w == locals.window
            arrivals == archive[locals.wk].arrivals
        IN  \A p \in DOMAIN arrivals :
               /\ w.start <= arrivals[p] /\ arrivals[p] <= w.end
               /\ 0 <= w.arrival_times[p] /\ w.arrival_times[p] <= w.end - w.start

\* C5: the main window starts at min(arrivals) - left_extend when that is not
\* negative; otherwise it starts at 0 and lasts left_extend + right_extend.
WindowStartAndClamp ==
    locals.status # None =>
        LET w == locals.window
            m == Min(Range(archive[locals.wk].arrivals))
        IN  IF m - conf.left_extend >= 0
               THEN w.start = m - conf.left_extend
               ELSE w.start = 0 /\ w.end - w.start = conf.left_extend + conf.right_extend

ClampedAndStored ==
    /\ Stored
    /\ Min(Range(archive[locals.wk].arrivals)) - conf.left_extend < 0
    /\ conf.right_extend > 0

MainRowRoundedLength ==
    Stored =>
        LET wf == archive[locals.wk]
            s == wf.reftime + locals.window.start
            e == wf.reftime + locals.window.end
            L == PyRound(conf.win_length, wf.delta)
        IN  \A i \in Components :
               LET slice == Slice(Condition(wf.traces[i]), s, e, wf.delta)
                   row == data[locals.wk][i]
               IN  /\ Len(row) = L
                   /\ Len(slice) >= L
                   /\ \A k \in 1..L : row[k] = slice[k]

\* C7 as amended: every stored main-window row has exactly
\* L = int(sampling_rate * win_length) samples (truncation, not rounding); it
\* holds the first L samples of the main-window slice when the slice has at
\* least L samples, and otherwise the slice has a single sample, which fills
\* the whole row.
MainRowTruncatedLength ==
    Stored =>
        LET wf == archive[locals.wk]
            s == wf.reftime + locals.window.start
            e == wf.reftime + locals.window.end
            L == conf.win_length \div wf.delta
        IN  \A i \in Components :
               LET slice == Slice(Condition(wf.traces[i]), s, e, wf.delta)
                   row == data[locals.wk][i]
               IN  /\ Len(row) = L
                   /\ IF Len(slice) >= L
                         THEN \A k \in 1..L : row[k] = slice[k]
                         ELSE /\ Len(slice) = 1
                              /\ \A k \in 1..L : row[k] = slice[1]

MainTailDropped ==
    /\ Stored
    /\ LET wf == archive[locals.wk]
           s == wf.reftime + locals.window.start
           e == wf.reftime + locals.window.end
       IN  /\ Len(data[locals.wk][1]) >= 1
           /\ Len(Slice(Condition(wf.traces[1]), s, e, wf.delta)) > Len(data[locals.wk][1])
           /\ conf.win_length % wf.delta # 0

\* C8: a stored left row built from a left-window slice of n < L samples has
\* zeros in its first L - n entries and the slice, in order, in its last n
\* entries; for n >= L it is the first L samples of the slice.
LeftRowRightAligned ==
    Stored =>
        LET wf == archive[locals.wk]
            ls == wf.reftime + locals.window.start - conf.win_length
            le == wf.reftime + locals.window.start
            L == conf.win_length \div wf.delta
        IN  \A i \in Components :
               LET slice == Slice(Condition(wf.traces[i]), ls, le, wf.delta)
                   n == Len(slice)
                   row == left_data[locals.wk][i]
               IN  /\ Len(row) = L
                   /\ IF n < L
                         THEN /\ \A k \in 1..(L - n) : row[k] = 0
                              /\ \A k \in 1..n : row[L - n + k] = slice[k]
                         ELSE \A k \in 1..L : row[k] = slice[k]

LeftRowPadded ==
    /\ Stored
    /\ LET wf == archive[locals.wk]
           ls == wf.reftime + locals.window.start - conf.win_length
           le == wf.reftime + locals.window.start
           n == Len(Slice(Condition(wf.traces[2]), ls, le, wf.delta))
       IN  /\ n >= 2
           /\ n < Len(left_data[locals.wk][2])
           /\ left_data[locals.wk][2][1] = 0
           /\ left_data[locals.wk][2][n + 1] # 0

\* C9 as stated: with a stack_transform configured, stack_ratio = 0 never
\* yields a stacked sample, whatever torch.rand draws, and stack_ratio = 1 on
\* a dataset of more than one example always yields the stack_transform of
\* the primary sample and a secondary sample.
StackingAtExtremes ==
    (result.returned /\ conf.stack_transform) =>
        LET stacked == "stacked" \in DOMAIN result.value
        IN  /\ conf.stack_ratio = 0 => ~stacked
            /\ (conf.stack_ratio = RandDen /\ Len(wave_keys) > 1) =>
                  /\ stacked
                  /\ result.value.stacked[1].key = wave_keys[result.idx]
                  /\ result.value.stacked[2].key # wave_keys[result.idx]
                  /\ result.value.stacked[2].key \in DOMAIN data

\* C10: under fair draws the resampling loop of a primary call ends exactly
\* when the dataset has more than one example; the secondary index is then a
\* valid index other than idx, the secondary call runs with stacking disabled
\* and the calls never nest deeper than primary plus secondary; with a single
\* example the loop is never left.
ResamplingTerminates ==
    /\ [](Len(frames) <= 2)
    /\ [](Len(frames) = 2 =>
             /\ ~frames[2].stack_main
             /\ frames[2].idx \in 1..Len(wave_keys)
             /\ frames[2].idx # frames[1].idx
             /\ frames[1].random_idx = frames[2].idx)
    /\ (frames # Empty /\ frames[1].at = "loop" /\ Len(wave_keys) > 1) ~> (frames = Empty)
    /\ [][(frames # Empty /\ frames[1].at = "loop" /\ Len(wave_keys) = 1)
             => (frames' # Empty /\ frames'[1].at = "loop")]_vars

SecondaryCallRunning ==
    /\ Len(frames) = 2
    /\ Len(wave_keys) > 1
    /\ frames[2].idx # frames[1].idx

\* C11: when add_data fails for a key during a prepare pass, the constructor
\* raises at that key: the failing key gets no entry in data, left_data,
\* right_data or label, the entries of the earlier keys stay as they were, no
\* later key is processed and no cache file is written.
PrepareFailsFast ==
    /\ [][(pc = "prepare" /\ next_key <= Len(wave_keys) /\ locals'.status # "stored") =>
             /\ pc' = "raised"
             /\ next_key' = next_key
             /\ cache' = cache
             /\ data' = data /\ left_data' = left_data
             /\ right_data' = right_data /\ label' = label]_vars
    /\ [][pc = "raised" => (cache' = cache /\ extracted' = extracted)]_vars
    /\ []((pc = "raised" /\ mode = "prepare") =>
             LET earlier == {wave_keys[j] : j \in 1..(next_key - 1)}
             IN  /\ ~cache.exists
                 /\ next_key \in DOMAIN wave_keys
                 /\ wave_keys[next_key] \notin earlier
                 /\ DOMAIN data = earlier /\ DOMAIN left_data = earlier
                 /\ DOMAIN right_data = earlier /\ DOMAIN label = earlier)

SecondKeyFailed ==
    /\ pc = "raised" /\ mode = "prepare"
    /\ error = "insufficient"
    /\ next_key = 2
    /\ Len(wave_keys) >= 2
    /\ wave_keys[1] \in DOMAIN data
    /\ ~cache.exists

====
